---- MODULE Spec2Model ----
(***************************************************************************)
(* UniStake wagering engine (src/index.js): the ledger (users, markets,    *)
(* bets, theses), the trade handler POST /api/bet, the settlement handler  *)
(* POST /api/resolve, the bet-history projection GET /api/bets, the        *)
(* deposit POST /api/deposit and the market administration                 *)
(* POST /api/markets and POST /api/admin/approve-market.                   *)
(*                                                                         *)
(* Every handler runs BEGIN ... COMMIT on one client and ROLLBACKs in its  *)
(* catch block.  A handler is one action: it reads, builds the list of     *)
(* write statements it issues, and the store executes them in order; a     *)
(* statement that throws sends the handler to its catch block.             *)
(*                                                                         *)
(* Amounts are JavaScript numbers / NUMERIC columns.  They are modelled as *)
(* exact rationals [n, d] in lowest terms, so a quotient such as           *)
(* stake / winningPool is a real quotient and not a truncated integer;     *)
(* binary floating-point rounding is not modelled.                         *)
(***************************************************************************)
EXTENDS Integers, Sequences, FiniteSets, TLC

VARIABLES users, markets, bets, theses, markets_id_seq, paid, tx

vars == <<users, markets, bets, theses, markets_id_seq, paid, tx>>

(***************************************************************************)
(* Numbers                                                                 *)
(***************************************************************************)
Abs(x) == IF x < 0 THEN -x ELSE x

\* Op applied to the value of x: x is evaluated once, however often Op uses it
At(Op(_), x) == CHOOSE r \in {Op(v) : v \in {x}} : TRUE

RECURSIVE GCD(_, _)
GCD(a, b) == IF b = 0 THEN a ELSE At(LAMBDA r : GCD(b, r), a % b)

\* n/d in lowest terms with a positive denominator (d # 0)
Rat(n, d) ==
    At(LAMBDA p :
          LET g == GCD(Abs(p[1]), Abs(p[2]))
              s == IF p[2] < 0 THEN -1 ELSE 1
          IN  At(LAMBDA q : [n |-> (s * p[1]) \div q, d |-> Abs(p[2]) \div q], g),
       <<n, d>>)

Num(i) == [n |-> i, d |-> 1]

Plus(x, y) ==
    At(LAMBDA p :
          At(LAMBDA g : Rat(p[1].n * (p[2].d \div g) + p[2].n * (p[1].d \div g),
                            (p[1].d \div g) * p[2].d),
             GCD(p[1].d, p[2].d)),
       <<x, y>>)

Minus(x, y) == At(LAMBDA v : Plus(x, [n |-> -v.n, d |-> v.d]), y)

Times(x, y) ==
    At(LAMBDA p :
          At(LAMBDA g : Rat((p[1].n \div g[1]) * (p[2].n \div g[2]),
                            (p[1].d \div g[2]) * (p[2].d \div g[1])),
             <<GCD(Abs(p[1].n), p[2].d), GCD(Abs(p[2].n), p[1].d)>>),
       <<x, y>>)

\* x / y for y # 0
Over(x, y) == At(LAMBDA v : Times(x, Rat(v.d, v.n)), y)

Less(x, y) == At(LAMBDA p : p[1].n * p[2].d < p[2].n * p[1].d, <<x, y>>)

RECURSIVE SumSeq(_)
SumSeq(s) == IF s = <<>> THEN Num(0) ELSE Plus(Head(s), SumSeq(Tail(s)))

(***************************************************************************)
(* Strings: a string is a sequence of one-character strings, so that       *)
(* toLowerCase() and trim() are computed and not assumed.                  *)
(***************************************************************************)
LowerOf(c) ==
    CASE c = "A" -> "a"
      [] c = "B" -> "b"
      [] c = "Y" -> "y"
      [] c = "N" -> "n"
      [] OTHER   -> c

toLowerCase(s) == [i \in 1..Len(s) |-> LowerOf(s[i])]

RECURSIVE TrimStart(_)
TrimStart(s) ==
    IF s # <<>> /\ Head(s) = " " THEN TrimStart(Tail(s)) ELSE s

RECURSIVE TrimEnd(_)
TrimEnd(s) ==
    IF s # <<>> /\ s[Len(s)] = " " THEN TrimEnd(SubSeq(s, 1, Len(s) - 1)) ELSE s

trim(s) == TrimEnd(TrimStart(s))

(***************************************************************************)
(* Program constants                                                       *)
(***************************************************************************)
ADMIN_EMAIL == "nguitui.kamau@gmail.com"

\* totalPool < 1000 ? 0 : ...
FEE_THRESHOLD == 1000

\* amount_kes >= 50 for a thesis
THESIS_MIN_STAKE == 50

\* the value of a request field that was not sent
LISTING_FEE == 200

undefined == <<"undefined">>

\* markets.creator_id of a market that predates the column (NULL)
NULL == 0

(***************************************************************************)
(* Bounds of the model                                                     *)
(***************************************************************************)
\* bets the ledger holds at most
MaxBets == 3

\* balance every non-admin user starts with
InitBalance == 600

UserIds == 1..3

MarketIds == 1..2

Email(id) == IF id = 1 THEN ADMIN_EMAIL ELSE IF id = 2 THEN "creator@x" ELSE "trader@x"

Yes == <<"Y", "e", "s">>

No == <<"N", "o">>

\* request inputs: the creator stakes 300s on A and the trader 400s on B, in
\* either market, and on A in market 1; one request stakes 399, which brings
\* a total to 999,
\* some carry a thesis (a text or blanks), one comes from an address no user
\* has
SomeThesis == <<"o", "k">>

\* a thesis of blanks only
Blank == <<" ", " ">>

BetRequests ==
    [email : {"creator@x"}, market_id : MarketIds, chosen_option : {"A"},
     amount_kes : {300}, thesis : {undefined}]
    \cup [email : {"trader@x"}, market_id : MarketIds, chosen_option : {"B"},
          amount_kes : {400}, thesis : {undefined}]
    \cup [email : {"trader@x"}, market_id : {1}, chosen_option : {"A"},
          amount_kes : {400}, thesis : {undefined}]
    \cup [email : {"trader@x"}, market_id : {2}, chosen_option : {"B"},
          amount_kes : {399}, thesis : {undefined}]
    \cup [email : {"trader@x"}, market_id : {1}, chosen_option : {"B"},
          amount_kes : {400}, thesis : {SomeThesis, Blank}]
    \cup [email : {"nobody@x"}, market_id : {1}, chosen_option : {"A"},
          amount_kes : {300}, thesis : {undefined}]

\* the thesis of a request: not sent, empty, blanks, a text, a text in blanks
Theses == {undefined, << >>, Blank, SomeThesis, <<" ", "o", " ">>}

\* bets around the least stake that may carry a thesis
ThesisRequests ==
    [email : {"trader@x"}, market_id : {1}, chosen_option : {"B"},
     amount_kes : {THESIS_MIN_STAKE - 1, THESIS_MIN_STAKE, 400}, thesis : Theses]

\* the letter with blanks and in upper case, the labels as stored and in
\* lower case, and a text that is neither
Outcomes ==
    { <<" ", "A">>, Yes, <<"y", "e", "s">>, No, <<"z">> }

\* market 3 does not exist
ResolveRequests ==
    [market_id : {1}, winning_option : Outcomes]
    \cup [market_id : {2}, winning_option : {<<" ", "A">>, No}]
    \cup [market_id : {3}, winning_option : {<<" ", "A">>}]

\* the store statement of a transaction that throws (0: none does)
FailPoints == {0, 3}

\* deposits: an amount to the house account, the same amount negated, and an
\* amount to an address no user has
DepositRequests ==
    [email : {ADMIN_EMAIL}, amount_kes : {100, -100}]
    \cup [email : {"nobody@x"}, amount_kes : {100}]

\* a deposit is taken while it leaves the account within this distance of 0
DepositCap == 100

\* clients whose transactions run interleaved
MaxClients == 2

Clients == 1..MaxClients

\* requests of the interleaved transactions, all about market 1 or a market
\* that does not exist
ConcBetRequests ==
    [email : {"creator@x"}, market_id : {1}, chosen_option : {"A"},
     amount_kes : {300}, thesis : {undefined}]
    \cup [email : {"trader@x"}, market_id : {1}, chosen_option : {"B"},
          amount_kes : {400}, thesis : {undefined}]

ConcResolveRequests ==
    [market_id : {1}, winning_option : {<<" ", "A">>, No}]
    \cup [market_id : {3}, winning_option : {<<" ", "A">>}]

\* addresses whose bet history is asked for
HistoryRequests == {"creator@x", "trader@x", "nobody@x"}

\* market administration: at most MaxMarketId markets are ever inserted
MaxMarketId == 4

MarketRequests == [email : {"creator@x", ADMIN_EMAIL, "nobody@x"}]

ApproveRequests == [market_id : 1..MaxMarketId, action : {"approve", "reject"}]

\* The tables users, markets and bets are created outside the repository:
\* bets.market_id may carry no foreign key, one that rejects the DELETE of a
\* market that has bets, or one that deletes the bets with the market.
ForeignKey == {"none", "restrict", "cascade"}

AdminBetRequests ==
    [email : {"creator@x"}, market_id : {1}, chosen_option : {"A"},
     amount_kes : {300}, thesis : {undefined}]
    \cup [email : {"trader@x"}, market_id : {3}, chosen_option : {"B"},
          amount_kes : {400}, thesis : {undefined}]

AdminResolveRequests == [market_id : {1, 3}, winning_option : {Yes}]

\* chosen_option and amount_kes are taken from the request body as they come
OptionRequests ==
    [email : {"trader@x"}, market_id : {1}, chosen_option : {"A", "B", "a", "C"},
     amount_kes : {400}, thesis : {undefined}]

StakeRequests ==
    [email : {"trader@x"}, market_id : {1}, chosen_option : {"B"},
     amount_kes : {-100, 0, 400}, thesis : {undefined}]

(***************************************************************************)
(* The ledger                                                              *)
(***************************************************************************)
\* markets_id_seq is the sequence of the SERIAL key of markets: the id given
\* to the market inserted last
DB ==
    [users |-> users, markets |-> markets, bets |-> bets, theses |-> theses,
     markets_id_seq |-> markets_id_seq]

\* a client connection with no transaction begun
Idle ==
    [pc |-> "idle", kind |-> "", req |-> [market_id |-> 0], user_id |-> 0,
     balance_kes |-> [n |-> 0, d |-> 1],
     market |-> [is_resolved |-> FALSE], stmts |-> << >>, message |-> "",
     credits |-> << >>, concurrent |-> FALSE]

\* Market 1 was created through POST /api/markets by user 2; market 2
\* predates the creator_id column, which the start-up migration adds as NULL.
Init ==
    /\ users = [id \in UserIds |->
                  [email |-> Email(id),
                   balance_kes |-> IF id = 1 THEN Num(0) ELSE Num(InitBalance),
                   is_admin |-> (id = 1)]]
    /\ markets = [m \in MarketIds |->
                  [option_a |-> Yes, option_b |-> No,
                   option_a_pool |-> Num(0), option_b_pool |-> Num(0),
                   is_resolved |-> FALSE, winning_option |-> "",
                   creator_id |-> IF m = 1 THEN 2 ELSE NULL,
                   is_approved |-> TRUE]]
    /\ bets = <<>>
    /\ theses = <<>>
    /\ markets_id_seq = Cardinality(MarketIds)
    /\ paid = <<>>
    /\ tx = [t \in Clients |-> Idle]

(***************************************************************************)
(* Store statements.  A write that matches no row changes nothing.         *)
(***************************************************************************)
\* UPDATE users SET balance_kes = balance_kes + $1 WHERE id = $2
CreditById(db, id, amt) ==
    IF id \in DOMAIN db.users
    THEN [db EXCEPT !.users[id].balance_kes = Plus(@, amt)]
    ELSE db

\* UPDATE users SET balance_kes = balance_kes + $1 WHERE email = $2
CreditByEmail(db, email, amt) ==
    [db EXCEPT !.users =
        [id \in DOMAIN db.users |->
            IF db.users[id].email = email
            THEN [db.users[id] EXCEPT !.balance_kes = Plus(@, amt)]
            ELSE db.users[id]]]

\* UPDATE users SET balance_kes = balance_kes - $1::numeric WHERE id = $2
DebitById(db, id, amt) ==
    IF id \in DOMAIN db.users
    THEN [db EXCEPT !.users[id].balance_kes = Minus(@, amt)]
    ELSE db

\* UPDATE markets SET <poolColumn> = <poolColumn> + $1::numeric WHERE id = $2
AddToPool(db, market_id, poolColumn, amt) ==
    IF market_id \notin DOMAIN db.markets THEN db
    ELSE IF poolColumn = "option_a_pool"
         THEN [db EXCEPT !.markets[market_id].option_a_pool = Plus(@, amt)]
         ELSE [db EXCEPT !.markets[market_id].option_b_pool = Plus(@, amt)]

\* INSERT INTO bets (user_id, market_id, chosen_option, amount_kes)
InsertBet(db, user_id, market_id, chosen_option, amt) ==
    [db EXCEPT !.bets = Append(@,
        [user_id |-> user_id, market_id |-> market_id,
         chosen_option |-> chosen_option, amount_kes |-> amt])]

\* INSERT INTO theses (bet_id, user_id, market_id, content)
InsertThesis(db, bet_id, user_id, market_id, content) ==
    [db EXCEPT !.theses = Append(@,
        [bet_id |-> bet_id, user_id |-> user_id, market_id |-> market_id,
         content |-> content])]

\* UPDATE markets SET is_resolved = TRUE, winning_option = $1 WHERE id = $2
SetResolved(db, market_id, outcome) ==
    IF market_id \notin DOMAIN db.markets THEN db
    ELSE [db EXCEPT !.markets[market_id].is_resolved = TRUE,
                    !.markets[market_id].winning_option = outcome]

Exec(db, s) ==
    CASE s.t = "debit"       -> DebitById(db, s.id, s.amt)
      [] s.t = "credit"      -> CreditById(db, s.id, s.amt)
      [] s.t = "creditEmail" -> CreditByEmail(db, s.email, s.amt)
      [] s.t = "pool"        -> AddToPool(db, s.market_id, s.col, s.amt)
      [] s.t = "insertBet"   -> InsertBet(db, s.id, s.market_id, s.opt, s.amt)
      [] s.t = "insertThesis" -> InsertThesis(db, s.bet_id, s.id, s.market_id, s.content)
      [] s.t = "resolved"    -> SetResolved(db, s.market_id, s.outcome)

RECURSIVE ExecAll(_, _)
ExecAll(db, stmts) ==
    IF stmts = <<>> THEN db ELSE ExecAll(Exec(db, Head(stmts)), Tail(stmts))

(***************************************************************************)
(* BEGIN ... COMMIT / catch { ROLLBACK }.  failAt = k > 0 makes the k-th   *)
(* statement the handler issues throw (the COMMIT is the last one).        *)
(***************************************************************************)
\* a catch block that does not undo: what the transaction wrote stays
RollbackKeepsWrites(atBegin, written) == written

\* ROLLBACK: the ledger as it was at BEGIN, whatever the transaction wrote
Rollback(atBegin, written) == atBegin

Throws(stmts, failAt) == failAt \in 1..(Len(stmts) + 1)

\* a transaction whose catch block is missing: the writes before the throw stay
TransactionWithoutRollback(db, stmts, failAt) ==
    IF Throws(stmts, failAt)
    THEN ExecAll(db, SubSeq(stmts, 1, failAt - 1))
    ELSE ExecAll(db, stmts)

Transaction(db, stmts, failAt) ==
    IF Throws(stmts, failAt)
    THEN Rollback(db, ExecAll(db, SubSeq(stmts, 1, failAt - 1)))
    ELSE ExecAll(db, stmts)

(***************************************************************************)
(* POST /api/bet                                                           *)
(***************************************************************************)
UserByEmail(db, email) == {id \in DOMAIN db.users : db.users[id].email = email}

\* a stake booked on pool A whatever was chosen
poolColumnAlwaysA(chosen_option) == "option_a_pool"

poolColumn(chosen_option) ==
    IF chosen_option = "A" THEN "option_a_pool" ELSE "option_b_pool"

\* a thesis kept whatever the stake
ThesisKeptAnyStake(thesis, amount_kes) ==
    /\ thesis # undefined
    /\ thesis # <<>>
    /\ trim(thesis) # <<>>

\* thesis && thesis.trim() !== '' && amount_kes >= 50
ThesisKept(thesis, amount_kes) ==
    /\ thesis # undefined
    /\ thesis # <<>>
    /\ trim(thesis) # <<>>
    /\ ~Less(amount_kes, Num(THESIS_MIN_STAKE))

BetStatements(db, user_id, market_id, chosen_option, amount_kes, thesis) ==
    << [t |-> "debit", id |-> user_id, amt |-> amount_kes],
       [t |-> "pool", market_id |-> market_id, col |-> poolColumn(chosen_option),
        amt |-> amount_kes],
       [t |-> "insertBet", id |-> user_id, market_id |-> market_id,
        opt |-> chosen_option, amt |-> amount_kes] >>
    \o IF ThesisKept(thesis, amount_kes)
       THEN << [t |-> "insertThesis", bet_id |-> Len(db.bets) + 1, id |-> user_id,
                market_id |-> market_id, content |-> thesis] >>
       ELSE << >>

\* app.post('/api/bet'): the ledger after the request and the answer sent
placeBet(db, email, market_id, chosen_option, amount_kes, thesis, failAt) ==
    LET rows == UserByEmail(db, email)
        user_id == CHOOSE id \in rows : TRUE
        stmts == BetStatements(db, user_id, market_id, chosen_option,
                               amount_kes, thesis)
    IN  IF rows = {}
        THEN [db |-> db, status |-> 400, message |-> "User not found."]
        ELSE IF Less(db.users[user_id].balance_kes, amount_kes)
        THEN [db |-> db, status |-> 400, message |-> "Insufficient balance."]
        ELSE IF Throws(stmts, failAt)
        THEN [db |-> Transaction(db, stmts, failAt), status |-> 400,
              message |-> "store error"]
        ELSE [db |-> Transaction(db, stmts, failAt), status |-> 200,
              message |-> ""]

(***************************************************************************)
(* POST /api/resolve                                                       *)
(***************************************************************************)
winLetter(winning_option, market) ==
    IF \/ trim(toLowerCase(winning_option)) = <<"a">>
       \/ trim(winning_option) = market.option_a
    THEN "A" ELSE "B"

\* a fee that starts above the threshold instead of at it
totalFeeAbove(totalPool, losingPool) ==
    IF ~Less(Num(FEE_THRESHOLD), totalPool) THEN Num(0)
    ELSE Times(losingPool, Rat(5, 100))

totalFee(totalPool, losingPool) ==
    IF Less(totalPool, Num(FEE_THRESHOLD)) THEN Num(0)
    ELSE Times(losingPool, Rat(5, 100))

creatorRoyalty(totalPool, losingPool) ==
    IF Less(totalPool, Num(FEE_THRESHOLD)) THEN Num(0)
    ELSE Times(losingPool, Rat(5, 1000))

adminCut(totalPool, losingPool) ==
    Minus(totalFee(totalPool, losingPool), creatorRoyalty(totalPool, losingPool))

\* a share taken of the total pool instead of the winning pool
payoutOfTotal(amount_kes, winningPool, losingPool, fee) ==
    Plus(amount_kes,
         Times(Over(amount_kes, Plus(winningPool, losingPool)), Minus(losingPool, fee)))

payout(amount_kes, winningPool, losingPool, fee) ==
    Plus(amount_kes, Times(Over(amount_kes, winningPool), Minus(losingPool, fee)))

\* SELECT ... FROM bets WHERE market_id = $1 [AND chosen_option = $2]: row numbers
RECURSIVE BetRows(_, _, _, _)
BetRows(db, market_id, options, from) ==
    IF from > Len(db.bets) THEN << >>
    ELSE (IF /\ db.bets[from].market_id = market_id
             /\ db.bets[from].chosen_option \in options
          THEN << from >> ELSE << >>)
         \o BetRows(db, market_id, options, from + 1)

AnyOption(db) == {db.bets[i].chosen_option : i \in 1..Len(db.bets)}

\* a refund that returns only the stakes placed on option A
RefundStatementsOnlyA(db, market_id) ==
    LET allBets == BetRows(db, market_id, {"A"}, 1)
    IN  [k \in 1..Len(allBets) |->
            [t |-> "credit", id |-> db.bets[allBets[k]].user_id,
             amt |-> db.bets[allBets[k]].amount_kes,
             kind |-> "refund", bet |-> allBets[k]]]
        \o << [t |-> "resolved", market_id |-> market_id, outcome |-> "Refunded"] >>

\* every credit names what it is for: kind, and the bet row of a payout
RefundStatements(db, market_id) ==
    LET allBets == BetRows(db, market_id, AnyOption(db), 1)
    IN  [k \in 1..Len(allBets) |->
            [t |-> "credit", id |-> db.bets[allBets[k]].user_id,
             amt |-> db.bets[allBets[k]].amount_kes,
             kind |-> "refund", bet |-> allBets[k]]]
        \o << [t |-> "resolved", market_id |-> market_id, outcome |-> "Refunded"] >>

SettleStatements(db, market_id, letter) ==
    LET market == db.markets[market_id]
        poolA == market.option_a_pool
        poolB == market.option_b_pool
        totalPool == Plus(poolA, poolB)
        losingPool == IF letter = "A" THEN poolB ELSE poolA
        winningPool == IF letter = "A" THEN poolA ELSE poolB
        fee == totalFee(totalPool, losingPool)
        royalty == creatorRoyalty(totalPool, losingPool)
        cut == adminCut(totalPool, losingPool)
        winBets == BetRows(db, market_id, {letter}, 1)
    IN  << [t |-> "resolved", market_id |-> market_id, outcome |-> letter] >>
        \o (IF Less(Num(0), royalty) /\ market.creator_id # NULL
            THEN << [t |-> "credit", id |-> market.creator_id, amt |-> royalty,
                     kind |-> "creator", bet |-> 0] >>
            ELSE << >>)
        \o (IF Less(Num(0), cut)
            THEN << [t |-> "creditEmail", email |-> ADMIN_EMAIL, amt |-> cut,
                     kind |-> "admin", bet |-> 0] >>
            ELSE << >>)
        \o [k \in 1..Len(winBets) |->
              [t |-> "credit", id |-> db.bets[winBets[k]].user_id,
               amt |-> payout(db.bets[winBets[k]].amount_kes, winningPool,
                              losingPool, fee),
               kind |-> "winner", bet |-> winBets[k]]]

\* poolA === 0 || poolB === 0
NoContest(market) ==
    market.option_a_pool = Num(0) \/ market.option_b_pool = Num(0)

ResolveStatements(db, market_id, winning_option) ==
    IF NoContest(db.markets[market_id])
    THEN RefundStatements(db, market_id)
    ELSE SettleStatements(db, market_id,
                          winLetter(winning_option, db.markets[market_id]))

Credits(stmts) == SelectSeq(stmts, LAMBDA s : s.t \in {"credit", "creditEmail"})

\* a settlement that does not look at is_resolved
resolveMarketUnchecked(db, market_id, winning_option, failAt) ==
    LET stmts == ResolveStatements(db, market_id, winning_option)
    IN  IF market_id \notin DOMAIN db.markets
        THEN [db |-> db, status |-> 400, message |-> "TypeError", credits |-> << >>]
        ELSE IF Throws(stmts, failAt)
        THEN [db |-> Transaction(db, stmts, failAt), status |-> 400,
              message |-> "store error", credits |-> << >>]
        ELSE [db |-> Transaction(db, stmts, failAt), status |-> 200,
              message |-> "", credits |-> Credits(stmts)]

\* app.post('/api/resolve'): the ledger after the request, the answer sent and
\* the credits the committed transaction made
resolveMarket(db, market_id, winning_option, failAt) ==
    LET stmts == ResolveStatements(db, market_id, winning_option)
    IN  IF market_id \notin DOMAIN db.markets
        THEN \* market is undefined: reading market.is_resolved throws
             [db |-> db, status |-> 400, message |-> "TypeError", credits |-> << >>]
        ELSE IF db.markets[market_id].is_resolved
        THEN [db |-> db, status |-> 400, message |-> "Already resolved.",
              credits |-> << >>]
        ELSE IF Throws(stmts, failAt)
        THEN [db |-> Transaction(db, stmts, failAt), status |-> 400,
              message |-> "store error", credits |-> << >>]
        ELSE [db |-> Transaction(db, stmts, failAt), status |-> 200,
              message |-> "", credits |-> Credits(stmts)]

(***************************************************************************)
(* GET /api/bets: the projection of one bet row (betsWithPayouts)          *)
(***************************************************************************)
\* a projection that reports the stake of a refunded bet as lost
betsWithPayoutsNoRefund(db, b) ==
    LET bet == db.bets[b]
        m == db.markets[bet.market_id]
    IN  IF ~m.is_resolved
        THEN [status |-> "Pending", payout_kes |-> Num(0)]
        ELSE IF bet.chosen_option = m.winning_option
        THEN [status |-> "Won", payout_kes |-> bet.amount_kes]
        ELSE [status |-> "Lost", payout_kes |-> Num(0)]

betsWithPayouts(db, b) ==
    LET bet == db.bets[b]
        m == db.markets[bet.market_id]
        stake == bet.amount_kes
        poolA == m.option_a_pool
        poolB == m.option_b_pool
        totalPool == Plus(poolA, poolB)
        winningPool == IF m.winning_option = "A" THEN poolA ELSE poolB
        losingPool == IF m.winning_option = "A" THEN poolB ELSE poolA
        fee == IF Less(totalPool, Num(FEE_THRESHOLD)) THEN Num(0) ELSE Rat(5, 100)
        distributableProfit == Minus(losingPool, Times(losingPool, fee))
        share == Over(stake, winningPool)
    IN  IF ~m.is_resolved
        THEN [status |-> "Pending", payout_kes |-> Num(0)]
        ELSE IF m.winning_option = "Refunded"
        THEN [status |-> "Refunded", payout_kes |-> stake]
        ELSE IF bet.chosen_option = m.winning_option
        THEN [status |-> "Won",
              payout_kes |-> Plus(stake, Times(share, distributableProfit))]
        ELSE [status |-> "Lost", payout_kes |-> Num(0)]

\* SELECT ... FROM bets b JOIN users u ... JOIN markets m ... WHERE u.email = $1
HistoryRows(db, email) ==
    {b \in 1..Len(db.bets) :
        /\ db.bets[b].user_id \in DOMAIN db.users
        /\ db.users[db.bets[b].user_id].email = email
        /\ db.bets[b].market_id \in DOMAIN db.markets}

\* app.get('/api/bets'): the rows sent, each with its status and payout
getBets(db, email) ==
    [b \in HistoryRows(db, email) |-> betsWithPayouts(db, b)]

(***************************************************************************)
(* POST /api/deposit: one UPDATE ... RETURNING outside any transaction     *)
(***************************************************************************)
deposit(db, email, amount_kes) ==
    IF UserByEmail(db, email) = {}
    THEN \* result.rows[0] is undefined: reading its balance_kes throws
         [db |-> db, status |-> 500, message |-> "TypeError"]
    ELSE [db |-> CreditByEmail(db, email, amount_kes), status |-> 200, message |-> ""]

(***************************************************************************)
(* POST /api/markets: the listing fee and the INSERT of the market         *)
(***************************************************************************)
createMarket(db, email) ==
    LET rows == UserByEmail(db, email)
        user_id == CHOOSE id \in rows : TRUE
        user == db.users[user_id]
        id == db.markets_id_seq + 1
        charged == IF user.is_admin THEN db
                   ELSE DebitById(db, user_id, Num(LISTING_FEE))
        row == [option_a |-> Yes, option_b |-> No,
                option_a_pool |-> Num(0), option_b_pool |-> Num(0),
                is_resolved |-> FALSE, winning_option |-> "",
                creator_id |-> user_id, is_approved |-> user.is_admin]
    IN  IF rows = {}
        THEN [db |-> db, status |-> 400, message |-> "User not found."]
        ELSE IF ~user.is_admin /\ Less(user.balance_kes, Num(LISTING_FEE))
        THEN [db |-> db, status |-> 400, message |-> "Insufficient funds."]
        ELSE [db |-> [charged EXCEPT
                        !.markets = [m \in DOMAIN db.markets \cup {id} |->
                                       IF m = id THEN row ELSE db.markets[m]],
                        !.markets_id_seq = id],
              status |-> 200, message |-> ""]

(***************************************************************************)
(* POST /api/admin/approve-market: any action but 'approve' rejects        *)
(***************************************************************************)
\* the rows of bets that are not bets on the market
RECURSIVE OtherRows(_, _, _)
OtherRows(db, market_id, from) ==
    IF from > Len(db.bets) THEN << >>
    ELSE (IF db.bets[from].market_id # market_id THEN << from >> ELSE << >>)
         \o OtherRows(db, market_id, from + 1)

\* DELETE FROM markets WHERE id = $1 under the foreign key fk of bets
DeleteMarket(db, market_id, fk) ==
    LET kept == OtherRows(db, market_id, 1)
    IN  [db EXCEPT
           !.markets = [m \in DOMAIN db.markets \ {market_id} |-> db.markets[m]],
           !.bets = IF fk = "cascade"
                    THEN [k \in 1..Len(kept) |-> db.bets[kept[k]]]
                    ELSE @]

approveMarket(db, market_id, action, fk) ==
    IF action = "approve"
    THEN IF market_id \in DOMAIN db.markets
         THEN [db |-> [db EXCEPT !.markets[market_id].is_approved = TRUE],
               status |-> 200, message |-> ""]
         ELSE [db |-> db, status |-> 200, message |-> ""]
    ELSE IF market_id \notin DOMAIN db.markets
    THEN \* market is undefined: reading market.creator_id throws
         [db |-> db, status |-> 500, message |-> "TypeError"]
    ELSE IF fk = "restrict" /\ Len(OtherRows(db, market_id, 1)) < Len(db.bets)
    THEN \* the DELETE throws: catch, ROLLBACK
         [db |-> db, status |-> 500, message |-> "store error"]
    ELSE \* balance_kes + 200: the amount is written out in the statement
         [db |-> DeleteMarket(CreditById(db, db.markets[market_id].creator_id,
                                         Num(200)),
                              market_id, fk),
          status |-> 200, message |-> ""]

(***************************************************************************)
(* The program: any request, one at a time                                 *)
(***************************************************************************)
Store(db) ==
    /\ users' = db.users
    /\ markets' = db.markets
    /\ bets' = db.bets
    /\ theses' = db.theses
    /\ markets_id_seq' = db.markets_id_seq

\* what the settlement credited for each bet row, kept beside the ledger for
\* the comparison with the projection; a new bet has been credited nothing
PaidFor(db, credits) ==
    [i \in 1..Len(db.bets) |->
        IF \E k \in 1..Len(credits) : credits[k].bet = i
        THEN LET k == CHOOSE k \in 1..Len(credits) : credits[k].bet = i
             IN  credits[k].amt
        ELSE IF i <= Len(paid) THEN paid[i] ELSE Num(0)]

PlaceBet(r, failAt) ==
    LET out == placeBet(DB, r.email, r.market_id, r.chosen_option,
                        Num(r.amount_kes), r.thesis, failAt)
    IN  /\ Len(out.db.bets) <= MaxBets
        /\ Store(out.db)
        /\ paid' = PaidFor(out.db, << >>)
        /\ tx' = tx

ResolveMarket(r, failAt) ==
    LET out == resolveMarket(DB, r.market_id, r.winning_option, failAt)
    IN  /\ Store(out.db)
        /\ paid' = PaidFor(out.db, out.credits)
        /\ tx' = tx

Deposit(r) ==
    LET out == deposit(DB, r.email, Num(r.amount_kes))
    IN  /\ \A u \in UserByEmail(DB, r.email) :
              /\ ~Less(Num(DepositCap), out.db.users[u].balance_kes)
              /\ ~Less(out.db.users[u].balance_kes, Num(-DepositCap))
        /\ Store(out.db)
        /\ paid' = paid
        /\ tx' = tx

\* the history is computed and sent; nothing is written
GetBets(email) ==
    /\ getBets(DB, email) \in [HistoryRows(DB, email) -> [status : STRING, payout_kes : [n : Int, d : Int]]]
    /\ UNCHANGED vars

Next ==
    \/ \E r \in BetRequests, failAt \in FailPoints : PlaceBet(r, failAt)
    \/ \E r \in ResolveRequests, failAt \in FailPoints : ResolveMarket(r, failAt)
    \/ \E r \in DepositRequests : Deposit(r)
    \/ \E email \in HistoryRequests : GetBets(email)

Spec == Init /\ [][Next]_vars

(***************************************************************************)
(* The program with its market administration: markets are inserted,       *)
(* approved and rejected between bets and settlements.                     *)
(***************************************************************************)
CreateMarket(r) ==
    LET out == createMarket(DB, r.email)
    IN  /\ out.db.markets_id_seq <= MaxMarketId
        /\ Store(out.db)
        /\ paid' = paid
        /\ tx' = tx

\* what the settlement credited for the bet rows the DELETE leaves
ApproveMarket(r, fk) ==
    LET out == approveMarket(DB, r.market_id, r.action, fk)
        kept == OtherRows(DB, r.market_id, 1)
    IN  /\ Store(out.db)
        /\ paid' = IF Len(out.db.bets) = Len(bets) THEN paid
                   ELSE [k \in 1..Len(kept) |-> paid[kept[k]]]
        /\ tx' = tx

\* with a foreign key, the INSERT of a bet on a market that is not there throws
AdminPlaceBet(r, fk) ==
    PlaceBet(r, IF fk # "none" /\ r.market_id \notin DOMAIN markets THEN 3 ELSE 0)

AdminNext ==
    \/ \E r \in MarketRequests : CreateMarket(r)
    \/ \E r \in ApproveRequests, fk \in ForeignKey : ApproveMarket(r, fk)
    \/ \E r \in AdminBetRequests, fk \in ForeignKey : AdminPlaceBet(r, fk)
    \/ \E r \in AdminResolveRequests : ResolveMarket(r, 0)

AdminSpec == Init /\ [][AdminNext]_vars

(***************************************************************************)
(* Interleaved transactions.  Each client runs one request as a            *)
(* transaction of several steps on its own connection; the store is        *)
(* PostgreSQL at READ COMMITTED: a statement reads what is committed when  *)
(* it runs, the writes of a transaction show at its COMMIT, and            *)
(* SELECT ... FOR UPDATE and UPDATE take the lock of the row they touch    *)
(* and keep it to the end of the transaction; a statement that needs a     *)
(* lock another transaction holds waits for that transaction to end; two   *)
(* transactions that wait for each other are a deadlock, which the store   *)
(* detects and ends by making the statement of one of them throw.          *)
(* The statements a transaction has issued are kept in tx[t].stmts and     *)
(* executed on the committed ledger at COMMIT (all of them add to a cell,  *)
(* insert a row or write the locked market row).                           *)
(***************************************************************************)
InFlight(t) == tx[t].pc \notin {"idle", "done"}

\* transaction t holds the lock of the row of market m: a settlement from
\* its SELECT ... FOR UPDATE on, a bet from its pool UPDATE on
HoldsRow(t, m) ==
    /\ m \in DOMAIN markets
    /\ tx[t].req.market_id = m
    /\ \/ tx[t].kind = "resolve" /\ tx[t].pc \in {"locked", "computed"}
       \/ tx[t].kind = "bet" /\ tx[t].pc = "pooled"

\* the users rows a list of statements writes
CreditedUsers(stmts) ==
    {u \in UserIds :
        \E k \in 1..Len(stmts) :
            \/ stmts[k].t \in {"credit", "debit"} /\ stmts[k].id = u
            \/ stmts[k].t = "creditEmail" /\ stmts[k].email = users[u].email}

\* transaction t holds the lock of the row of user u: a bet from its debit
\* on, a settlement once it has issued its credits
HoldsUser(t, u) ==
    \/ tx[t].kind = "bet" /\ tx[t].pc \in {"debited", "pooled"} /\ tx[t].user_id = u
    \/ tx[t].kind = "resolve" /\ tx[t].pc = "computed" /\ u \in CreditedUsers(tx[t].stmts)

\* a SELECT that takes no lock and waits for none
SelectWithoutLock(t, m) == FALSE

\* SELECT * FROM markets WHERE id = $1 FOR UPDATE waits while another
\* transaction holds the row
ForUpdateWaits(t, m) == \E u \in Clients \ {t} : HoldsRow(u, m)

\* a pool update that does not wait for the holder of the row
UpdateWithoutWait(t, m) == FALSE

\* UPDATE markets SET pool = pool + $1 WHERE id = $2 waits while another
\* transaction holds the row
UpdateWaits(t, m) == \E u \in Clients \ {t} : HoldsRow(u, m)

\* UPDATE users SET balance_kes = balance_kes - $1 WHERE id = $2 waits while
\* another transaction holds the row of that user
DebitWaitsFor(t) == {u \in Clients \ {t} : HoldsUser(u, tx[t].user_id)}

\* the statements a settlement that holds the market row issues next, and the
\* transactions that hold a users row they credit
Pending(t) ==
    ResolveStatements([DB EXCEPT !.markets[tx[t].req.market_id] = tx[t].market],
                      tx[t].req.market_id, tx[t].req.winning_option)

CreditWaitsFor(t) ==
    At(LAMBDA ids : {u \in Clients \ {t} : \E id \in ids : HoldsUser(u, id)},
       At(CreditedUsers, Pending(t)))

\* a bet that has debited its user waits at the pool update for the
\* settlement r, which waits at a credit for the bet t
MutualWait(t, r) ==
    /\ tx[t].kind = "bet" /\ tx[t].pc = "debited"
    /\ tx[r].kind = "resolve" /\ tx[r].pc = "locked"
    /\ HoldsRow(r, tx[t].req.market_id)
    /\ t \in CreditWaitsFor(r)

\* a store without deadlock detection
NeverDetected(t) == FALSE

\* the store's deadlock detection finds transaction t in a cycle of waits
Deadlocked(t) == \E u \in Clients \ {t} : MutualWait(t, u) \/ MutualWait(u, t)

Finish(t, message, credits) ==
    [tx EXCEPT ![t].pc = "done", ![t].message = message, ![t].credits = credits]

Ledger == <<users, markets, bets, theses, markets_id_seq, paid>>

\* POST /api/resolve arrives: BEGIN
ResolveStart(t, r) ==
    /\ tx[t].pc = "idle"
    /\ tx' = [tx EXCEPT ![t] = [Idle EXCEPT !.pc = "begun", !.kind = "resolve",
                                            !.req = r,
                                            !.concurrent = \E u \in Clients : InFlight(u)]]
    /\ UNCHANGED Ledger

\* SELECT ... FOR UPDATE, market.is_resolved
ResolveLock(t) ==
    LET m == tx[t].req.market_id
    IN  /\ tx[t].pc = "begun" /\ tx[t].kind = "resolve"
        /\ ~ForUpdateWaits(t, m)
        /\ tx' = IF m \notin DOMAIN markets
                 THEN Finish(t, "TypeError", << >>)
                 ELSE IF markets[m].is_resolved
                 THEN Finish(t, "Already resolved.", << >>)
                 ELSE [tx EXCEPT ![t].pc = "locked", ![t].market = markets[m]]
        /\ UNCHANGED Ledger

\* the rest of the handler up to the COMMIT: the bets are selected as they
\* are committed now, the market row is the one read under the lock
ResolveCompute(t) ==
    LET m == tx[t].req.market_id
        seen == [DB EXCEPT !.markets[m] = tx[t].market]
    IN  /\ tx[t].pc = "locked"
        /\ CreditWaitsFor(t) = {}
        /\ tx' = [tx EXCEPT ![t].pc = "computed",
                            ![t].stmts = ResolveStatements(seen, m, tx[t].req.winning_option)]
        /\ UNCHANGED Ledger

ResolveCommit(t) ==
    /\ tx[t].pc = "computed"
    /\ Store(ExecAll(DB, tx[t].stmts))
    /\ paid' = PaidFor(ExecAll(DB, tx[t].stmts), Credits(tx[t].stmts))
    /\ tx' = Finish(t, "", Credits(tx[t].stmts))

\* POST /api/bet arrives: BEGIN, SELECT the user, the two tests
BetStart(t, r) ==
    LET rows == UserByEmail(DB, r.email)
        user_id == CHOOSE id \in rows : TRUE
        begun == [Idle EXCEPT !.pc = "read", !.kind = "bet", !.req = r,
                              !.concurrent = \E u \in Clients : InFlight(u)]
    IN  /\ tx[t].pc = "idle"
        /\ Len(bets) + Cardinality({u \in Clients : tx[u].kind = "bet" /\ InFlight(u)})
             < MaxBets
        /\ tx' = [tx EXCEPT ![t] =
                    IF rows = {}
                    THEN [begun EXCEPT !.pc = "done", !.message = "User not found."]
                    ELSE IF Less(users[user_id].balance_kes, Num(r.amount_kes))
                    THEN [begun EXCEPT !.pc = "done", !.message = "Insufficient balance."]
                    ELSE [begun EXCEPT !.user_id = user_id,
                                       !.balance_kes = users[user_id].balance_kes]]
        /\ UNCHANGED Ledger

\* the debit
BetDebit(t) ==
    /\ tx[t].pc = "read"
    /\ DebitWaitsFor(t) = {}
    /\ tx' = [tx EXCEPT ![t].pc = "debited"]
    /\ UNCHANGED Ledger

\* the pool update
BetPool(t) ==
    /\ tx[t].pc = "debited"
    /\ ~UpdateWaits(t, tx[t].req.market_id)
    /\ tx' = [tx EXCEPT ![t].pc = "pooled"]
    /\ UNCHANGED Ledger

\* the inserts and the COMMIT
BetCommit(t) ==
    LET r == tx[t].req
        stmts == BetStatements(DB, tx[t].user_id, r.market_id, r.chosen_option,
                               Num(r.amount_kes), r.thesis)
    IN  /\ tx[t].pc = "pooled"
        /\ Store(ExecAll(DB, stmts))
        /\ paid' = PaidFor(ExecAll(DB, stmts), << >>)
        /\ tx' = Finish(t, "", << >>)

\* a statement of the transaction throws: catch, ROLLBACK
Abort(t) ==
    /\ InFlight(t)
    /\ tx' = Finish(t, "store error", << >>)
    /\ UNCHANGED Ledger

\* the statement the transaction waits at throws 'deadlock detected'
DeadlockDetected(t) ==
    /\ Deadlocked(t)
    /\ tx' = Finish(t, "deadlock detected", << >>)
    /\ UNCHANGED Ledger

\* ledgers the interleaved transactions start from: market 1 with no stake,
\* with a stake on A, with stakes on both options
StartLedgers ==
    LET l0 == [users |-> [id \in UserIds |->
                            [email |-> Email(id),
                             balance_kes |-> IF id = 1 THEN Num(0) ELSE Num(InitBalance),
                             is_admin |-> (id = 1)]],
               markets |-> [m \in MarketIds |->
                            [option_a |-> Yes, option_b |-> No,
                             option_a_pool |-> Num(0), option_b_pool |-> Num(0),
                             is_resolved |-> FALSE, winning_option |-> "",
                             creator_id |-> IF m = 1 THEN 2 ELSE NULL,
                             is_approved |-> TRUE]],
               bets |-> << >>, theses |-> << >>,
               markets_id_seq |-> Cardinality(MarketIds)]
        l1 == placeBet(l0, "creator@x", 1, "A", Num(300), undefined, 0).db
        l2 == placeBet(l1, "trader@x", 1, "B", Num(400), undefined, 0).db
    IN  {l0, l1, l2}

ConcInit ==
    \E l \in StartLedgers :
        /\ users = l.users
        /\ markets = l.markets
        /\ bets = l.bets
        /\ theses = l.theses
        /\ markets_id_seq = l.markets_id_seq
        /\ paid = [i \in 1..Len(l.bets) |-> Num(0)]
        /\ tx = [t \in Clients |-> Idle]

ConcNext ==
    \/ \E t \in Clients, r \in ConcResolveRequests : ResolveStart(t, r)
    \/ \E t \in Clients : ResolveLock(t)
    \/ \E t \in Clients : ResolveCompute(t)
    \/ \E t \in Clients : ResolveCommit(t)
    \/ \E t \in Clients, r \in ConcBetRequests : BetStart(t, r)
    \/ \E t \in Clients : BetDebit(t)
    \/ \E t \in Clients : BetPool(t)
    \/ \E t \in Clients : BetCommit(t)
    \/ \E t \in Clients : Abort(t)
    \/ \E t \in Clients : DeadlockDetected(t)

ConcSpec == ConcInit /\ [][ConcNext]_vars

\* a step of a transaction under way: a statement a handler awaits, or the
\* store's deadlock detection
Step ==
    \E t \in Clients :
        \/ ResolveLock(t) \/ ResolveCompute(t) \/ ResolveCommit(t)
        \/ BetDebit(t) \/ BetPool(t) \/ BetCommit(t)
        \/ DeadlockDetected(t)

\* the store and the event loop do not halt while a statement can run; the
\* arrival of requests and store errors are not bound to happen
Fairness == WF_vars(Step)

FairConcSpec == ConcInit /\ [][ConcNext]_vars /\ Fairness



(***************************************************************************)
(* Properties                                                              *)
(***************************************************************************)
TotalBalance(db) == SumSeq([id \in UserIds |-> db.users[id].balance_kes])

TotalPool(m) == Plus(markets[m].option_a_pool, markets[m].option_b_pool)

\* the market exists and is not resolved
Open(m) == m \in DOMAIN markets /\ ~markets[m].is_resolved

RowsOf(m) == {b \in 1..Len(bets) : bets[b].market_id = m}

\* what user u staked on market m
StakedBy(u, m) ==
    SumSeq([b \in 1..Len(bets) |->
              IF bets[b].market_id = m /\ bets[b].user_id = u
              THEN bets[b].amount_kes ELSE Num(0)])

\* what a list of credits gives user u
CreditedTo(credits, u) ==
    SumSeq([k \in 1..Len(credits) |->
              IF \/ credits[k].t = "credit" /\ credits[k].id = u
                 \/ credits[k].t = "creditEmail" /\ credits[k].email = users[u].email
              THEN credits[k].amt ELSE Num(0)])

Known(email) == \E id \in UserIds : users[id].email = email

IdOf(email) == CHOOSE id \in UserIds : users[id].email = email

(***************************************************************************)
(* C1. Pool conservation on normal settlement: a successful resolveMarket  *)
(* of an unresolved market whose two pools are both non-zero raises the    *)
(* balances (winner payouts, house credit, creator royalty) by exactly     *)
(* winPool + losePool in total, with or without a recorded creator.        *)
(***************************************************************************)
C1_PoolConservation ==
    \A r \in ResolveRequests :
        (Open(r.market_id) /\ ~NoContest(markets[r.market_id])) =>
            LET out == resolveMarket(DB, r.market_id, r.winning_option, 0)
            IN  /\ out.status = 200
                /\ Minus(TotalBalance(out.db), TotalBalance(DB)) = TotalPool(r.market_id)
                /\ SumSeq([k \in 1..Len(out.credits) |-> out.credits[k].amt])
                     = TotalPool(r.market_id)

(***************************************************************************)
(* C2. Refund exactness: resolveMarket on an unresolved market one of      *)
(* whose pools is zero credits every bet of the market its stake to its    *)
(* owner and nothing else (no house or creator credit), so that every      *)
(* user's balance rises by what he staked there and the balances in total  *)
(* by the total pool, and the market becomes resolved as 'Refunded'        *)
(* whatever winner was declared.                                           *)
(***************************************************************************)
C2_RefundExact ==
    \A r \in ResolveRequests :
        (Open(r.market_id) /\ NoContest(markets[r.market_id])) =>
            LET m == r.market_id
                out == resolveMarket(DB, m, r.winning_option, 0)
            IN  /\ out.status = 200
                /\ Len(out.credits) = Cardinality(RowsOf(m))
                /\ \A b \in RowsOf(m) :
                      \E k \in 1..Len(out.credits) :
                          /\ out.credits[k].bet = b
                          /\ out.credits[k].kind = "refund"
                          /\ out.credits[k].id = bets[b].user_id
                          /\ out.credits[k].amt = bets[b].amount_kes
                /\ \A u \in UserIds :
                      out.db.users[u].balance_kes
                        = Plus(users[u].balance_kes, StakedBy(u, m))
                /\ Minus(TotalBalance(out.db), TotalBalance(DB)) = TotalPool(m)
                /\ out.db.markets[m].is_resolved
                /\ out.db.markets[m].winning_option = "Refunded"
                /\ out.db.markets[m].option_a_pool = markets[m].option_a_pool
                /\ out.db.markets[m].option_b_pool = markets[m].option_b_pool
                /\ out.db.bets = bets

\* a refunded market with the bets of two users, each paid back his stake
C2_Witness ==
    \E m \in MarketIds :
        /\ markets[m].is_resolved
        /\ markets[m].winning_option = "Refunded"
        /\ \E b1, b2 \in RowsOf(m) :
              /\ bets[b1].user_id # bets[b2].user_id
              /\ paid[b1] = bets[b1].amount_kes
              /\ paid[b2] = bets[b2].amount_kes
              /\ users[bets[b1].user_id].balance_kes = Num(InitBalance)
              /\ users[bets[b2].user_id].balance_kes = Num(InitBalance)

(***************************************************************************)
(* C3. Settlement idempotence: on a market that is already resolved (as A, *)
(* B or Refunded) every resolveMarket call, whatever it declares and       *)
(* whether or not the store fails, is answered 'Already resolved.' and     *)
(* leaves every balance, pool, outcome and bet as it was, and credits      *)
(* nothing; so no market is settled twice.                                 *)
(***************************************************************************)
C3_AlreadyResolved ==
    \A r \in ResolveRequests, failAt \in FailPoints :
        (r.market_id \in DOMAIN markets /\ markets[r.market_id].is_resolved) =>
            LET out == resolveMarket(DB, r.market_id, r.winning_option, failAt)
            IN  /\ out.status = 400
                /\ out.message = "Already resolved."
                /\ out.db = DB
                /\ out.credits = << >>

\* one market settled for a winner and the other one refunded
C3_Witness ==
    \E m1, m2 \in MarketIds :
        /\ markets[m1].is_resolved /\ markets[m1].winning_option \in {"A", "B"}
        /\ markets[m2].is_resolved /\ markets[m2].winning_option = "Refunded"
        /\ RowsOf(m1) # {} /\ RowsOf(m2) # {}

(***************************************************************************)
(* C4. Balance conservation on trade: a successful placeBet of an option A *)
(* or B on an existing market leaves the bettor's balance at exactly the   *)
(* old balance minus the stake and the chosen option's pool at exactly the *)
(* old pool plus the stake, changes no other pool, no other user and no    *)
(* other market, and appends exactly one bet record (user, market, option, *)
(* stake).                                                                 *)
(***************************************************************************)
C4_TradeConservation ==
    \A r \in BetRequests :
        LET out == placeBet(DB, r.email, r.market_id, r.chosen_option,
                            Num(r.amount_kes), r.thesis, 0)
            m == r.market_id
        IN  (out.status = 200 /\ m \in DOMAIN markets /\ r.chosen_option \in {"A", "B"}) =>
                LET u == IdOf(r.email)
                IN  /\ out.db.users[u].balance_kes
                         = Minus(users[u].balance_kes, Num(r.amount_kes))
                    /\ \A v \in UserIds \ {u} : out.db.users[v] = users[v]
                    /\ out.db.markets[m].option_a_pool
                         = IF r.chosen_option = "A"
                           THEN Plus(markets[m].option_a_pool, Num(r.amount_kes))
                           ELSE markets[m].option_a_pool
                    /\ out.db.markets[m].option_b_pool
                         = IF r.chosen_option = "B"
                           THEN Plus(markets[m].option_b_pool, Num(r.amount_kes))
                           ELSE markets[m].option_b_pool
                    /\ \A n \in DOMAIN markets \ {m} : out.db.markets[n] = markets[n]
                    /\ out.db.bets = Append(bets,
                          [user_id |-> u, market_id |-> m,
                           chosen_option |-> r.chosen_option,
                           amount_kes |-> Num(r.amount_kes)])

\* the trader has staked 400 on B in a market that already held a stake on A
C4_Witness ==
    \E b \in 1..Len(bets) :
        /\ b > 1
        /\ bets[b].user_id = 3 /\ bets[b].chosen_option = "B"
        /\ bets[b].amount_kes = Num(400)
        /\ users[3].balance_kes = Num(InitBalance - 400)
        /\ markets[bets[b].market_id].option_b_pool = Num(400)
        /\ markets[bets[b].market_id].option_a_pool = Num(300)
        /\ ~markets[bets[b].market_id].is_resolved

(***************************************************************************)
(* C5. Trade failure is all-or-nothing: a placeBet from an address no user *)
(* has is answered 'User not found.', one whose stake exceeds the user's   *)
(* balance 'Insufficient balance.', and after every placeBet that fails,   *)
(* also one whose store statement throws after the debit and the pool      *)
(* update, balances, pools, bets and theses are as before.                 *)
(***************************************************************************)
C5_TradeAllOrNothing ==
    \A r \in BetRequests, failAt \in FailPoints :
        LET out == placeBet(DB, r.email, r.market_id, r.chosen_option,
                            Num(r.amount_kes), r.thesis, failAt)
        IN  /\ ~Known(r.email) =>
                 out.status = 400 /\ out.message = "User not found."
            /\ (Known(r.email)
                /\ Less(users[IdOf(r.email)].balance_kes, Num(r.amount_kes))) =>
                 out.status = 400 /\ out.message = "Insufficient balance."
            /\ (failAt # 0 /\ Known(r.email)
                /\ ~Less(users[IdOf(r.email)].balance_kes, Num(r.amount_kes))) =>
                 out.status = 400
            /\ out.status # 200 => out.db = DB

\* the trader holds a bet and a thesis and can no longer afford 400, while the
\* creator can still afford a stake whose insert may throw
C5_Witness ==
    /\ Len(bets) > 0
    /\ Len(theses) > 0
    /\ Less(users[3].balance_kes, Num(400))
    /\ ~Less(users[2].balance_kes, Num(300))
    /\ \E m \in MarketIds : TotalPool(m) # Num(0)

(***************************************************************************)
(* C6. Winner payout formula: a normal settlement (both pools non-zero)    *)
(* credits every bet on the winning option exactly once, to its owner,     *)
(* stake + (stake / winPool) * (losePool - houseCut), credits no losing    *)
(* bet, raises every balance by exactly the credits made to that user, and *)
(* leaves unchanged the balance of a user who holds only losing bets in    *)
(* the market and is neither the house nor the creator.                    *)
(***************************************************************************)
HouseCutOf(total, losePool) ==
    IF Less(total, Num(1000)) THEN Num(0) ELSE Over(Times(losePool, Num(5)), Num(100))

C6_WinnerPayout ==
    \A r \in ResolveRequests :
        (Open(r.market_id) /\ ~NoContest(markets[r.market_id])) =>
            LET m == r.market_id
                out == resolveMarket(DB, m, r.winning_option, 0)
                w == out.db.markets[m].winning_option
                winPool == IF w = "A" THEN markets[m].option_a_pool
                           ELSE markets[m].option_b_pool
                losePool == IF w = "A" THEN markets[m].option_b_pool
                            ELSE markets[m].option_a_pool
                houseCut == HouseCutOf(TotalPool(m), losePool)
                For(b) == {k \in 1..Len(out.credits) : out.credits[k].bet = b}
            IN  /\ out.status = 200
                /\ w \in {"A", "B"}
                /\ \A b \in RowsOf(m) :
                      IF bets[b].chosen_option = w
                      THEN /\ Cardinality(For(b)) = 1
                           /\ \A k \in For(b) :
                                 /\ out.credits[k].id = bets[b].user_id
                                 /\ out.credits[k].amt =
                                      Plus(bets[b].amount_kes,
                                           Times(Over(bets[b].amount_kes, winPool),
                                                 Minus(losePool, houseCut)))
                      ELSE For(b) = {}
                /\ \A u \in UserIds :
                      out.db.users[u].balance_kes
                        = Plus(users[u].balance_kes, CreditedTo(out.credits, u))
                /\ \A u \in UserIds :
                      (/\ \E b \in RowsOf(m) : bets[b].user_id = u
                       /\ \A b \in RowsOf(m) :
                             bets[b].user_id = u => bets[b].chosen_option # w
                       /\ users[u].email # ADMIN_EMAIL
                       /\ markets[m].creator_id # u)
                      => out.db.users[u].balance_kes = users[u].balance_kes

\* pools A = 600 and B = 400 settled for A: a stake of 300 on A was paid 490,
\* and the trader, who staked 400 on B, still has 200
C6_Witness ==
    \E m \in MarketIds :
        /\ markets[m].is_resolved /\ markets[m].winning_option = "A"
        /\ markets[m].option_a_pool = Num(600)
        /\ markets[m].option_b_pool = Num(400)
        /\ \E b \in RowsOf(m) :
              /\ bets[b].chosen_option = "A"
              /\ bets[b].amount_kes = Num(300)
              /\ paid[b] = Num(490)
        /\ \E b \in RowsOf(m) :
              /\ bets[b].chosen_option = "B" /\ bets[b].user_id = 3
              /\ paid[b] = Num(0)
        /\ users[3].balance_kes = Num(InitBalance - 400)

(***************************************************************************)
(* C7. Fee threshold: in a normal settlement the fee withheld from the     *)
(* losing pool, losePool minus the profit per unit of winning stake that   *)
(* each winner is paid, is 0 when winPool + losePool < 1000 (and then      *)
(* neither house nor creator is credited) and exactly 5% of losePool when  *)
(* winPool + losePool >= 1000; it is a function of the total and the       *)
(* losing pool alone.                                                      *)
(***************************************************************************)
C7_FeeThreshold ==
    \A r \in ResolveRequests :
        (Open(r.market_id) /\ ~NoContest(markets[r.market_id])) =>
            LET m == r.market_id
                out == resolveMarket(DB, m, r.winning_option, 0)
                w == out.db.markets[m].winning_option
                winPool == IF w = "A" THEN markets[m].option_a_pool
                           ELSE markets[m].option_b_pool
                losePool == IF w = "A" THEN markets[m].option_b_pool
                            ELSE markets[m].option_a_pool
                Withheld(k) ==
                    Minus(losePool,
                          Over(Times(Minus(out.credits[k].amt,
                                           bets[out.credits[k].bet].amount_kes),
                                     winPool),
                               bets[out.credits[k].bet].amount_kes))
            IN  /\ \E k \in 1..Len(out.credits) : out.credits[k].kind = "winner"
                /\ \A k \in 1..Len(out.credits) :
                      out.credits[k].kind = "winner" =>
                          Withheld(k) = IF TotalPool(m).n < 1000 * TotalPool(m).d
                                        THEN Num(0)
                                        ELSE Rat(5 * losePool.n, 100 * losePool.d)
                /\ TotalPool(m).n < 1000 * TotalPool(m).d =>
                      \A k \in 1..Len(out.credits) : out.credits[k].kind = "winner"

\* a market with a total of 999 settled for A: the two stakes of 300 share the
\* whole losing pool of 399 and the house has received nothing
C7_Witness ==
    \E m \in MarketIds :
        /\ markets[m].is_resolved /\ markets[m].winning_option = "A"
        /\ TotalPool(m) = Num(999)
        /\ \E b1, b2 \in RowsOf(m) :
              /\ b1 # b2
              /\ paid[b1] = Rat(999, 2) /\ paid[b2] = Rat(999, 2)
        /\ users[1].balance_kes = Num(0)

(***************************************************************************)
(* C8. Invalid outcome is rejected: resolveMarket on an unresolved market  *)
(* with a declared winner that is, trimmed and ignoring case, neither the  *)
(* letter a or b nor one of the market's two labels fails, and the market  *)
(* stays unresolved with no balance or pool changed.                       *)
(***************************************************************************)
Declared(winning_option) == trim(toLowerCase(winning_option))

MatchesA(winning_option, market) ==
    \/ Declared(winning_option) = <<"a">>
    \/ Declared(winning_option) = trim(toLowerCase(market.option_a))

MatchesB(winning_option, market) ==
    \/ Declared(winning_option) = <<"b">>
    \/ Declared(winning_option) = trim(toLowerCase(market.option_b))

C8_InvalidOutcomeRejected ==
    \A r \in ResolveRequests :
        (/\ Open(r.market_id)
         /\ ~MatchesA(r.winning_option, markets[r.market_id])
         /\ ~MatchesB(r.winning_option, markets[r.market_id])) =>
            LET out == resolveMarket(DB, r.market_id, r.winning_option, 0)
            IN  /\ out.status = 400
                /\ out.db = DB

(***************************************************************************)
(* C9. Outcome normalization: a normal settlement declared with the letter *)
(* a or the option-A label, trimmed and in any letter case, settles the    *)
(* market for A, and one declared with b or the option-B label for B.      *)
(***************************************************************************)
C9_OutcomeNormalized ==
    \A r \in ResolveRequests :
        (Open(r.market_id) /\ ~NoContest(markets[r.market_id])) =>
            LET m == r.market_id
                out == resolveMarket(DB, m, r.winning_option, 0)
            IN  /\ MatchesA(r.winning_option, markets[m]) =>
                      out.db.markets[m].winning_option = "A"
                /\ MatchesB(r.winning_option, markets[m]) =>
                      out.db.markets[m].winning_option = "B"

(***************************************************************************)
(* C10. Projection/settlement agreement: at any time after a market was    *)
(* resolved as A or B, the payout the bet history reports for a winning    *)
(* bet that the settlement paid equals the amount the settlement credited  *)
(* for that bet.                                                           *)
(***************************************************************************)
C10_ProjectionAgrees ==
    \A b \in 1..Len(bets) :
        (/\ bets[b].market_id \in DOMAIN markets
         /\ markets[bets[b].market_id].is_resolved
         /\ markets[bets[b].market_id].winning_option \in {"A", "B"}
         /\ bets[b].chosen_option = markets[bets[b].market_id].winning_option
         /\ paid[b] # Num(0)) =>
            /\ betsWithPayouts(DB, b).status = "Won"
            /\ betsWithPayouts(DB, b).payout_kes = paid[b]

(***************************************************************************)
(* C11. Projection statuses: the bet history reports a bet on an           *)
(* unresolved market as Pending with payout 0, a bet on a market resolved  *)
(* as Refunded as Refunded with payout equal to its stake, a bet whose     *)
(* option differs from the winning letter as Lost with payout 0, and any   *)
(* other bet as Won; every bet of the asked user on an existing market is  *)
(* reported, and reading the history writes nothing.                       *)
(***************************************************************************)
C11_ProjectionStatuses ==
    \A email \in HistoryRequests :
        LET rows == getBets(DB, email)
        IN  /\ DOMAIN rows = {b \in 1..Len(bets) : users[bets[b].user_id].email = email}
            /\ \A b \in DOMAIN rows :
                  LET m == markets[bets[b].market_id]
                  IN  /\ ~m.is_resolved =>
                           rows[b].status = "Pending" /\ rows[b].payout_kes = Num(0)
                      /\ (m.is_resolved /\ m.winning_option = "Refunded") =>
                           /\ rows[b].status = "Refunded"
                           /\ rows[b].payout_kes = bets[b].amount_kes
                      /\ (m.is_resolved /\ m.winning_option \in {"A", "B"}
                          /\ bets[b].chosen_option # m.winning_option) =>
                           rows[b].status = "Lost" /\ rows[b].payout_kes = Num(0)
                      /\ (m.is_resolved /\ m.winning_option \in {"A", "B"}
                          /\ bets[b].chosen_option = m.winning_option) =>
                           rows[b].status = "Won"

\* one user's history holds a won and a refunded bet, another one's a lost bet
C11_Witness ==
    /\ \E email \in HistoryRequests :
          LET rows == getBets(DB, email)
          IN  /\ \E b \in DOMAIN rows :
                    rows[b].status = "Refunded" /\ rows[b].payout_kes = bets[b].amount_kes
              /\ \E b \in DOMAIN rows :
                    rows[b].status = "Won" /\ Less(bets[b].amount_kes, rows[b].payout_kes)
    /\ \E email \in HistoryRequests :
          \E b \in DOMAIN getBets(DB, email) :
              getBets(DB, email)[b].status = "Lost"

(***************************************************************************)
(* C12. Settlement is atomic on failure: when resolveMarket on an          *)
(* unresolved market fails at any statement it issues (a credit, the       *)
(* status write, the COMMIT), also after some credits or after the status  *)
(* write, the request is answered with an error, the market is still       *)
(* unresolved and every balance, pool, bet and thesis is as before.        *)
(***************************************************************************)
C12_SettlementAtomic ==
    \A r \in ResolveRequests :
        Open(r.market_id) =>
            LET m == r.market_id
                stmts == ResolveStatements(DB, m, r.winning_option)
            IN  \A failAt \in 1..(Len(stmts) + 1) :
                    LET out == resolveMarket(DB, m, r.winning_option, failAt)
                    IN  /\ out.status = 400
                        /\ out.credits = << >>
                        /\ ~out.db.markets[m].is_resolved
                        /\ \A u \in UserIds :
                              out.db.users[u].balance_kes = users[u].balance_kes
                        /\ out.db = DB

\* an unresolved market of 1000 with a creator: its settlement writes the
\* status, credits creator and house and then the winners, and each of these
\* may throw
C12_Witness ==
    /\ Open(1) /\ ~NoContest(markets[1])
    /\ TotalPool(1) = Num(1000)
    /\ Len(ResolveStatements(DB, 1, Yes)) = 5
    /\ resolveMarket(DB, 1, Yes, 0).status = 200
    /\ resolveMarket(DB, 1, Yes, 3).message = "store error"

(***************************************************************************)
(* C13. resolveMarket on a market id that does not exist fails with the    *)
(* error that names the market as not found, and changes no balance and    *)
(* no market.                                                              *)
(***************************************************************************)
C13_ResolveNotFound ==
    \A r \in ResolveRequests, failAt \in FailPoints :
        r.market_id \notin DOMAIN markets =>
            LET out == resolveMarket(DB, r.market_id, r.winning_option, failAt)
            IN  /\ out.status = 400
                /\ out.message = "Market not found."
                /\ out.db = DB

(***************************************************************************)
(* C14. placeBet succeeds only against a market that exists and is not yet *)
(* resolved: no request debits a balance and records a bet for a market    *)
(* that does not exist or is already resolved.                             *)
(***************************************************************************)
C14_BetOnlyOnOpenMarket ==
    \A r \in BetRequests :
        LET out == placeBet(DB, r.email, r.market_id, r.chosen_option,
                            Num(r.amount_kes), r.thesis, 0)
        IN  (out.status = 200 /\ Len(out.db.bets) = Len(bets) + 1) =>
                Open(r.market_id)

(***************************************************************************)
(* C15. Resolved markets are immutable: no step changes the pool totals or *)
(* the outcome of a market that is resolved, or makes it unresolved again. *)
(***************************************************************************)
C15_ResolvedImmutable ==
    [][\A m \in DOMAIN markets :
          markets[m].is_resolved =>
              /\ m \in DOMAIN markets'
              /\ markets'[m].is_resolved
              /\ markets'[m].winning_option = markets[m].winning_option
              /\ markets'[m].option_a_pool = markets[m].option_a_pool
              /\ markets'[m].option_b_pool = markets[m].option_b_pool]_vars

(***************************************************************************)
(* C19. Thesis rule: a successful placeBet inserts exactly one thesis      *)
(* record, linked to the new bet and holding the text as sent, if and only *)
(* if a thesis was sent, is not empty after trimming and the stake is at   *)
(* least 50; otherwise it inserts none; the bet is recorded either way.    *)
(***************************************************************************)
C19_ThesisRule ==
    \A r \in BetRequests \cup ThesisRequests :
        LET out == placeBet(DB, r.email, r.market_id, r.chosen_option,
                            Num(r.amount_kes), r.thesis, 0)
            supplied == r.thesis # undefined /\ r.thesis # << >>
            nonEmpty == \E i \in 1..Len(r.thesis) : r.thesis[i] # " "
        IN  out.status = 200 =>
                /\ Len(out.db.bets) = Len(bets) + 1
                /\ out.db.bets[Len(bets) + 1].amount_kes = Num(r.amount_kes)
                /\ IF supplied /\ nonEmpty /\ r.amount_kes >= 50
                   THEN out.db.theses = Append(theses,
                            [bet_id |-> Len(bets) + 1,
                             user_id |-> out.db.bets[Len(bets) + 1].user_id,
                             market_id |-> r.market_id,
                             content |-> r.thesis])
                   ELSE out.db.theses = theses

\* the trader's first bet carried a thesis, which is recorded with it, the
\* second one carried none or blanks and left no record; he can still afford
\* a stake of 49 or 50
C19_Witness ==
    /\ Len(bets) >= 2
    /\ Len(theses) = 1
    /\ theses[1].bet_id = 1
    /\ theses[1].content = SomeThesis
    /\ bets[1].user_id = 3 /\ bets[2].user_id = 3
    /\ ~Less(users[3].balance_kes, Num(50))
    /\ placeBet(DB, "trader@x", 1, "B", Num(49), SomeThesis, 0).status = 200

(***************************************************************************)
(* C20. Creator royalty split: in a normal settlement of a total of 1000   *)
(* or more, a recorded creator is credited 0.5% of the losing pool and the *)
(* house the rest of the 5% cut; with no recorded creator the house is     *)
(* credited the whole 5% cut; so creator credit plus house credit equals   *)
(* the cut withheld from the winners.                                      *)
(***************************************************************************)
C20_RoyaltySplit ==
    \A r \in ResolveRequests :
        (/\ Open(r.market_id) /\ ~NoContest(markets[r.market_id])
         /\ ~Less(TotalPool(r.market_id), Num(1000))) =>
            LET m == r.market_id
                out == resolveMarket(DB, m, r.winning_option, 0)
                w == out.db.markets[m].winning_option
                losePool == IF w = "A" THEN markets[m].option_b_pool
                            ELSE markets[m].option_a_pool
                Of(kind) == SumSeq([k \in 1..Len(out.credits) |->
                                IF out.credits[k].kind = kind
                                THEN out.credits[k].amt ELSE Num(0)])
                cut == Over(Times(losePool, Num(5)), Num(100))
            IN  /\ out.status = 200
                /\ Plus(Of("creator"), Of("admin")) = cut
                /\ IF markets[m].creator_id # NULL
                   THEN /\ Of("creator") = Over(Times(losePool, Num(5)), Num(1000))
                        /\ out.db.users[markets[m].creator_id].balance_kes
                             = Plus(users[markets[m].creator_id].balance_kes,
                                    CreditedTo(out.credits, markets[m].creator_id))
                   ELSE Of("creator") = Num(0) /\ Of("admin") = cut

(***************************************************************************)
(* C18. Balance non-negativity: starting from non-negative balances, every *)
(* user's balance is at least 0 in every reachable state.                  *)
(***************************************************************************)
C18_BalanceNonNegative ==
    \A u \in UserIds : ~Less(users[u].balance_kes, Num(0))

(***************************************************************************)
(* C16. Exactly-once settlement under concurrency: of the resolveMarket    *)
(* transactions that run interleaved on one market, with the same or with  *)
(* different declared winners, at most one commits a settlement; every     *)
(* other one that reads the market after that commit is answered 'Already  *)
(* resolved.' and writes nothing; and every bet is credited by at most one *)
(* of them.                                                                *)
(***************************************************************************)
Resolvers(m) == {t \in Clients : tx[t].kind = "resolve" /\ tx[t].req.market_id = m}

Settled(t) == tx[t].kind = "resolve" /\ tx[t].pc = "done" /\ tx[t].message = ""

C16_SettledOnce ==
    \A m \in MarketIds :
        /\ Cardinality({t \in Resolvers(m) : Settled(t)}) <= 1
        /\ markets[m].is_resolved <=> \E t \in Resolvers(m) : Settled(t)
        /\ \A t \in Resolvers(m) :
              /\ tx[t].pc = "done" =>
                    tx[t].message \in {"", "Already resolved.", "store error",
                                       "deadlock detected"}
              /\ (tx[t].pc = "done" /\ tx[t].message = "Already resolved.") =>
                    /\ tx[t].credits = << >>
                    /\ \E u \in Resolvers(m) \ {t} : Settled(u)
              \* no settlement is under way on a market that is resolved
              /\ tx[t].pc \in {"locked", "computed"} => ~markets[m].is_resolved
        /\ \A b \in RowsOf(m) :
              Cardinality({t \in Resolvers(m) :
                             \E k \in 1..Len(tx[t].credits) : tx[t].credits[k].bet = b}) <= 1

\* two settlements of market 1, which holds stakes on both options, were under
\* way together with different declared winners: one committed and paid the
\* winner, the other one was answered 'Already resolved.'
C16_Witness ==
    \E t, u \in Clients :
        /\ t # u
        /\ Settled(t) /\ tx[t].req.market_id = 1
        /\ \E k \in 1..Len(tx[t].credits) :
              tx[t].credits[k].kind = "winner" /\ paid[tx[t].credits[k].bet] = tx[t].credits[k].amt
        /\ tx[u].kind = "resolve" /\ tx[u].req.market_id = 1
        /\ tx[u].pc = "done" /\ tx[u].message = "Already resolved."
        /\ tx[u].concurrent
        /\ tx[u].req.winning_option # tx[t].req.winning_option
        /\ markets[1].winning_option \in {"A", "B"}

(***************************************************************************)
(* C17. Settlement excludes late stakes: from the moment a resolveMarket   *)
(* transaction has read the market row under its lock until it commits or  *)
(* aborts, the committed row of that market (its pool totals) is the one   *)
(* it read, and the statements it has issued are those that the bets       *)
(* committed now give: no bet transaction commits a stake on that market   *)
(* in between.                                                             *)
(***************************************************************************)
C17_NoLateStake ==
    \A t \in Clients :
        (tx[t].kind = "resolve" /\ tx[t].pc \in {"locked", "computed"}) =>
            LET m == tx[t].req.market_id
            IN  /\ markets[m] = tx[t].market
                /\ markets[m].option_a_pool = tx[t].market.option_a_pool
                /\ markets[m].option_b_pool = tx[t].market.option_b_pool
                /\ tx[t].pc = "computed" =>
                      tx[t].stmts = ResolveStatements(DB, m, tx[t].req.winning_option)

\* a settlement of market 1 has read the pools under the lock and issued its
\* credits, and a bet on the same market, begun meanwhile, has debited its
\* user and waits at the pool update
C17_Witness ==
    \E t, u \in Clients :
        /\ tx[t].kind = "resolve" /\ tx[t].pc = "computed"
        /\ tx[t].req.market_id = 1
        /\ Len(tx[t].stmts) >= 2
        /\ tx[u].kind = "bet" /\ tx[u].pc = "debited" /\ tx[u].req.market_id = 1
        /\ tx[u].concurrent
        /\ UpdateWaits(u, 1)

(***************************************************************************)
(* C21. No double spend: of the placeBet transactions of one user that run *)
(* interleaved and have read the same balance, those that commit have      *)
(* stakes that together do not exceed the balance they read: two bets      *)
(* whose stakes sum above the balance never both commit.                   *)
(***************************************************************************)
Committed(t) == tx[t].kind = "bet" /\ tx[t].pc = "done" /\ tx[t].message = ""

C21_NoDoubleSpend ==
    \A t, u \in Clients :
        (/\ t # u
         /\ Committed(t) /\ Committed(u)
         /\ tx[t].user_id = tx[u].user_id
         /\ tx[t].balance_kes = tx[u].balance_kes) =>
            ~Less(tx[t].balance_kes,
                  Plus(Num(tx[t].req.amount_kes), Num(tx[u].req.amount_kes)))

(***************************************************************************)
(* C22. Termination of transactions: under fair scheduling every placeBet  *)
(* and every resolveMarket transaction that has started ends: it commits,  *)
(* or it fails and is rolled back, and the client is answered.             *)
(***************************************************************************)
C22_Terminates ==
    \A t \in Clients : InFlight(t) ~> (tx[t].pc = "done")

\* a bet and a settlement of the same market waited for each other; the
\* store ended one of them with 'deadlock detected' and the other committed
C22_Witness ==
    \E t, u \in Clients :
        /\ t # u
        /\ tx[t].pc = "done" /\ tx[t].message = "deadlock detected"
        /\ tx[u].pc = "done" /\ tx[u].message = ""
        /\ tx[t].kind # tx[u].kind
        /\ tx[t].req.market_id = tx[u].req.market_id
        /\ tx[u].concurrent \/ tx[t].concurrent

(***************************************************************************)
(* C23. Lock order: a placeBet transaction and a resolveMarket transaction *)
(* on the same market never reach a state in which each of them waits for  *)
(* a row lock the other one holds.                                         *)
(***************************************************************************)
C23_NoMutualWait ==
    \A t, r \in Clients : ~MutualWait(t, r)

(***************************************************************************)
(* C24. Pools are the stakes: in every ledger, and after a placeBet with   *)
(* any chosen-option value a request may carry, pool A of a market is the  *)
(* sum of the stakes of its bets recorded with 'A' and pool B the sum of   *)
(* the stakes of its bets recorded with 'B'.                               *)
(***************************************************************************)
StakesOn(db, m, option) ==
    SumSeq([b \in 1..Len(db.bets) |->
              IF db.bets[b].market_id = m /\ db.bets[b].chosen_option = option
              THEN db.bets[b].amount_kes ELSE Num(0)])

PoolsAreStakes(db) ==
    \A m \in DOMAIN db.markets :
        /\ db.markets[m].option_a_pool = StakesOn(db, m, "A")
        /\ db.markets[m].option_b_pool = StakesOn(db, m, "B")

C24_PoolsAreStakes ==
    /\ PoolsAreStakes(DB)
    /\ \A r \in BetRequests \cup OptionRequests :
          PoolsAreStakes(placeBet(DB, r.email, r.market_id, r.chosen_option,
                                  Num(r.amount_kes), r.thesis, 0).db)

(***************************************************************************)
(* C25. Stakes are positive: every bet recorded has a stake above zero (a  *)
(* placeBet with a stake of zero or less never commits), no placeBet       *)
(* lowers a pool, and no placeBet raises the balance of the bettor.        *)
(***************************************************************************)
C25_PositiveStake ==
    /\ \A b \in 1..Len(bets) : Less(Num(0), bets[b].amount_kes)
    /\ \A r \in BetRequests \cup StakeRequests :
          LET out == placeBet(DB, r.email, r.market_id, r.chosen_option,
                              Num(r.amount_kes), r.thesis, 0)
          IN  /\ out.status = 200 => r.amount_kes > 0
              /\ \A m \in DOMAIN markets :
                    /\ ~Less(out.db.markets[m].option_a_pool, markets[m].option_a_pool)
                    /\ ~Less(out.db.markets[m].option_b_pool, markets[m].option_b_pool)
              /\ \A u \in UserIds :
                    ~Less(users[u].balance_kes, out.db.users[u].balance_kes)

(***************************************************************************)
(* C26. Balance frame: market creation, approval and rejection leave every *)
(* balance as it is; a balance changes only by a placeBet of that user, a  *)
(* resolveMarket that credits them, or a deposit.                          *)
(***************************************************************************)
C26_BalanceFrame ==
    /\ \A r \in MarketRequests : createMarket(DB, r.email).db.users = users
    /\ \A r \in ApproveRequests, fk \in ForeignKey :
          approveMarket(DB, r.market_id, r.action, fk).db.users = users

(***************************************************************************)
(* C27. Bets are immutable: no operation changes the owner, the market,    *)
(* the option or the stake of a recorded bet, removes the bet, or removes  *)
(* the market the bet refers to.                                           *)
(***************************************************************************)
BetsKept(db) ==
    /\ Len(db.bets) >= Len(bets)
    /\ SubSeq(db.bets, 1, Len(bets)) = bets
    /\ \A b \in 1..Len(bets) :
          bets[b].market_id \in DOMAIN markets => bets[b].market_id \in DOMAIN db.markets

C27_BetsImmutable ==
    /\ \A r \in AdminBetRequests, fk \in ForeignKey :
          BetsKept(placeBet(DB, r.email, r.market_id, r.chosen_option, Num(r.amount_kes),
                            r.thesis,
                            IF fk # "none" /\ r.market_id \notin DOMAIN markets
                            THEN 3 ELSE 0).db)
    /\ \A r \in AdminResolveRequests :
          BetsKept(resolveMarket(DB, r.market_id, r.winning_option, 0).db)
    /\ \A r \in MarketRequests : BetsKept(createMarket(DB, r.email).db)
    /\ \A r \in ApproveRequests, fk \in ForeignKey :
          BetsKept(approveMarket(DB, r.market_id, r.action, fk).db)

(***************************************************************************)
(* C28. Conservation of funds: over deposits, bets and settlements the     *)
(* balances plus the pools of the unresolved markets stay equal to the     *)
(* initial balances plus the deposits: a placeBet and a resolveMarket      *)
(* leave that sum as it is, and a deposit raises it by the amount.         *)
(***************************************************************************)
Funds(db) ==
    Plus(TotalBalance(db),
         SumSeq([m \in 1..Cardinality(MarketIds) |->
                   IF m \in DOMAIN db.markets /\ ~db.markets[m].is_resolved
                   THEN Plus(db.markets[m].option_a_pool, db.markets[m].option_b_pool)
                   ELSE Num(0)]))

C28_FundsConserved ==
    /\ \A r \in BetRequests, failAt \in FailPoints :
          Funds(placeBet(DB, r.email, r.market_id, r.chosen_option, Num(r.amount_kes),
                         r.thesis, failAt).db) = Funds(DB)
    /\ \A r \in ResolveRequests, failAt \in FailPoints :
          Funds(resolveMarket(DB, r.market_id, r.winning_option, failAt).db) = Funds(DB)
    /\ \A r \in DepositRequests :
          LET out == deposit(DB, r.email, Num(r.amount_kes))
          IN  Funds(out.db) = IF out.status = 200
                              THEN Plus(Funds(DB), Num(r.amount_kes))
                              ELSE Funds(DB)

(***************************************************************************)
(* C29. Listing fee refund: a rejection credits 200 to the creator of the  *)
(* market only if that creator was debited the listing fee for it and the  *)
(* market is still pending approval; it credits nobody else, never         *)
(* credits a creator who paid no fee, and never removes a market that      *)
(* holds bets.                                                             *)
(***************************************************************************)
\* the listing fee was taken for market m: its creator is not an admin
FeePaid(m) ==
    /\ markets[m].creator_id \in UserIds
    /\ ~users[markets[m].creator_id].is_admin

C29_RefundOnlyPendingFee ==
    \A r \in ApproveRequests, fk \in ForeignKey :
        r.action # "approve" =>
            LET out == approveMarket(DB, r.market_id, r.action, fk)
            IN  /\ \A u \in UserIds :
                      out.db.users[u] # users[u] =>
                          /\ r.market_id \in DOMAIN markets
                          /\ markets[r.market_id].creator_id = u
                          /\ FeePaid(r.market_id)
                          /\ ~markets[r.market_id].is_approved
                          /\ out.db.users[u].balance_kes =
                                Plus(users[u].balance_kes, Num(LISTING_FEE))
                /\ (r.market_id \in DOMAIN markets /\ RowsOf(r.market_id) # {}) =>
                      r.market_id \in DOMAIN out.db.markets

====
